---------------------------- MODULE Spec2Model ----------------------------
(***************************************************************************)
(* Hourly energy balance and capacity search of the power-system scripts.  *)
(*                                                                         *)
(*   optimization.py        normalises the input series, lets gp_minimize  *)
(*                          evaluate calc_all on candidate mixes and       *)
(*                          re-runs calc_all on the best one;              *)
(*   ANALYSIS BASED.py      (src/unnamed/part_000) normalises the input    *)
(*                          series and runs simulate_energy_balance once   *)
(*                          for the installed infrastructure.              *)
(*                                                                         *)
(* Representation.                                                         *)
(*   Energy (kWh) is fixed point: an integer count of 1/Scale kWh, with    *)
(*   Scale the denominator of storage_efficiency = 0.85 = 17/20, so that   *)
(*   every value the hourly loop computes from whole-kWh series is exact.  *)
(*   The floating-point rounding of the Python scripts is not modelled.    *)
(*   Money is counted in units of MoneyUnit euros, because the budget      *)
(*   (8 814 600 000 EUR) does not fit the 32-bit integers of TLC.  *)
(***************************************************************************)
EXTENDS Integers, Sequences, FiniteSets, TLC

(***************************************************************************)
(* Bounds of the model.                                                    *)
(***************************************************************************)
\* hours of one run; the scripts use 8760 (HOURS_PER_YEAR)
HOURS_PER_YEAR == 3
\* objective evaluations of the search; the script uses n_calls = 50
n_calls == 2

(***************************************************************************)
(* Program constants.                                                      *)
(***************************************************************************)
MoneyUnit == 50                     \* euros per unit of account
total_population == 2938200
investment_per_capita == 60         \* 3000 EUR / person
total_investment == total_population * investment_per_capita

cost_wind == 130000                 \* 6.5e6 EUR
cost_panels == 12                   \* 600 EUR
cost_smr == 5000000                 \* 250e6 EUR
cost_storage_kwh == 2               \* 100 EUR / kWh

EffNum == 17                        \* storage_efficiency = 0.85 = 17/20
EffDen == 20
InitNum == 1                        \* initial_storage_fraction = 0.5 = 1/2
InitDen == 2
Scale == EffDen
kWh(x) == x * Scale

area10 == 38322                     \* area = 3832.2 km^2, in tenths
hydro_power_per_km2 == 20
hydro_capacity == (area10 * hydro_power_per_km2) \div 10

\* 1e30, the value calc_all returns for an infeasible mix.  It is held as the
\* largest integer TLC represents; it is only ever compared, never added to.
Sentinel == 2147483647

VARIABLES
    script,            \* which script runs: "optimization" or "analysis"
    pc,                \* position in the script
    raw_demand,        \* demand_data['demand'].values as loaded
    raw_wind,          \* wind_data['Turbine Output (KW)'].values as loaded
    hourly_demand,     \* ensure_8760(demand)
    wind_power,        \* ensure_8760(wind_power)
    mix,               \* <<Nmills, Npanels, NSMR>> of the run
    caller,            \* who called calc_all: "search" or "final"
    total_production,  \* hourly production of the run
    storage_kwh,       \* storage capacity of the run (storage_capacity)
    storage,           \* storage level
    h,                 \* hours processed by the loop
    gas_consumption,   \* calc_all: running total of backup energy
    gas_hourly,        \* backup energy per hour
    storage_values,    \* recorded storage levels
    ret,               \* value returned by the last run
    func_vals          \* gp_minimize: <<x, objective>> per evaluation

vars == <<script, pc, raw_demand, raw_wind, hourly_demand, wind_power, mix,
          caller, total_production, storage_kwh, storage, h, gas_consumption,
          gas_hourly, storage_values, ret, func_vals>>

(***************************************************************************)
(* Pure helpers.                                                           *)
(***************************************************************************)
Min(a, b) == IF a <= b THEN a ELSE b
Max(a, b) == IF a >= b THEN a ELSE b

\* (variant) np.pad in its default mode 'constant': zeros appended
np_pad_constant(data, n) == data \o [i \in 1..n |-> 0]

\* np.pad(data, (0, n), 'edge'): the last sample repeated n times
np_pad_edge(data, n) == data \o [i \in 1..n |-> data[Len(data)]]

\* (variant) the slice of a long series is one sample short
ensure_8760_ShortSlice(data) ==
    IF Len(data) > HOURS_PER_YEAR THEN SubSeq(data, 1, HOURS_PER_YEAR - 1)
    ELSE IF Len(data) < HOURS_PER_YEAR
         THEN data \o [i \in 1..(HOURS_PER_YEAR - Len(data)) |-> data[Len(data)]]
         ELSE data

ensure_8760(data) ==
    IF Len(data) > HOURS_PER_YEAR THEN SubSeq(data, 1, HOURS_PER_YEAR)
    ELSE IF Len(data) < HOURS_PER_YEAR
         THEN np_pad_edge(data, HOURS_PER_YEAR - Len(data))
         ELSE data

\* capital cost of a mix, in units of account
MixCost(m) == m[1] * cost_wind + m[2] * cost_panels + m[3] * cost_smr

\* total_investment - (...), in units of account
Residual(m) == total_investment - MixCost(m)

\* calc_all, line 73: the residual in euros is used as the capacity in kWh
calc_all_storage_kwh(m) == kWh(Residual(m) * MoneyUnit)

\* simulate_energy_balance, line 61
simulate_storage_capacity(m) == kWh(Residual(m)) \div cost_storage_kwh

\* (variant) only the first run starts from half the capacity, later runs
\* go on from the level the previous run ended with
InitialStorage_CarriedOver(cap) ==
    IF Len(func_vals) = 0 THEN (cap * 1) \div 2 ELSE storage

\* storage_kwh * initial_storage_fraction
InitialStorage(cap) == (cap * InitNum) \div InitDen

\* (variant) a mix that costs exactly the budget is let through
Feasible_AllowZero(cap) == cap >= 0

\* the guard of calc_all, line 75
Feasible(cap) == cap > 0

\* irradiation of the modelled hours (night hours: the panel chain
\* 0.55 * 2.8 * 0.197 / 1000 = 30338 / 10^8 is exact only at 0)
irradiation == [i \in 1..HOURS_PER_YEAR |-> 0]

calc_energy_production(m, wp) ==
    [i \in 1..HOURS_PER_YEAR |->
        m[1] * wp[i]
        + (m[2] * irradiation[i] * 30338 * Scale) \div 100000000
        + kWh(m[3] * 50 * 1000)
        + kWh(hydro_capacity)]

(***************************************************************************)
(* One hour of the balance: the body of the hourly loop.                   *)
(***************************************************************************)
IsSurplus(surplus) == surplus > 0

\* surplus * storage_efficiency
Charged(surplus) == (surplus * EffNum) \div EffDen

\* (variant) the storage is not emptied when backup takes over
NextStorage_NoReset(s, surplus, cap) ==
    IF surplus > 0
    THEN Min(s + (surplus * EffNum) \div EffDen, cap)
    ELSE IF s >= -surplus THEN s - (-surplus) ELSE s

\* (variant) the efficiency factor is applied on discharge as well
NextStorage_LossyDischarge(s, surplus, cap) ==
    IF surplus > 0
    THEN Min(s + (surplus * EffNum) \div EffDen, cap)
    ELSE IF s >= -surplus THEN s - ((-surplus) * EffNum) \div EffDen ELSE 0

\* (variant) the deficit branch subtracts the (negative) surplus
NextStorage_SignSlip(s, surplus, cap) ==
    IF surplus > 0
    THEN Min(s + (surplus * EffNum) \div EffDen, cap)
    ELSE IF s >= -surplus THEN s - surplus ELSE 0

\* storage level after the hour
NextStorage(s, surplus, cap) ==
    IF IsSurplus(surplus)
    THEN Min(s + Charged(surplus), cap)
    ELSE IF s >= -surplus THEN s - (-surplus) ELSE 0

\* backup energy of the hour as calc_all adds it to gas_consumption
CalcAllGas(s, surplus) ==
    IF IsSurplus(surplus) THEN 0
    ELSE IF s >= -surplus THEN 0 ELSE (-surplus) - s

\* backup energy of the hour as simulate_energy_balance stores it
SimulateGas(s, surplus) ==
    IF IsSurplus(surplus) THEN 0
    ELSE IF s >= -surplus THEN 0 ELSE Max(0, (-surplus) - s)

(***************************************************************************)
(* Inputs.                                                                 *)
(***************************************************************************)
\* nuclear and hydro production of a mix with 35 SMRs, kWh
BaseKWh == 35 * 50 * 1000 + hydro_capacity

OptDemandVals == {kWh(BaseKWh + 100), kWh(BaseKWh + 400)}
OptWindVals == {0, kWh(50)}

AnaDemandVals == {kWh(1000000), kWh(2000000), kWh(4000000)}
AnaProductionVals == {kWh(1000000), kWh(4000000)}

SeqsUpTo(S, n) == UNION {[1..k -> S] : k \in 0..n}
SeqsOfLengths(S, L) == UNION {[1..k -> S] : k \in L}

\* lengths of the series optimization.py loads: none, one sample, a full year
OptLengths == {0, 1, HOURS_PER_YEAR}

\* mixes the optimizer may propose
MixPool == { <<8, 20999, 35>>,     \* residual  600 EUR
             <<7, 31833, 35>>,     \* residual  200 EUR
             <<8, 21000, 35>>,     \* costs exactly the budget
             <<8, 21001, 35>>,     \* costs 600 EUR more than the budget
             <<0, 0, 36>> }        \* outside the bounds

\* bounds, lines 106-110
bounds == << <<0, total_investment \div cost_wind>>,
             <<0, total_investment \div cost_panels>>,
             <<0, total_investment \div cost_smr>> >>

InBounds(m) == \A i \in 1..3 : bounds[i][1] <= m[i] /\ m[i] <= bounds[i][2]

Candidates == {m \in MixPool : InBounds(m)}

\* installed infrastructure of the analysis script
Installed == { <<625, 4759059, 5>>,   \* as in the script
               <<646, 4776000, 7>>,   \* costs exactly the budget
               <<625, 4759059, 8>> }  \* costs more than the budget

(***************************************************************************)
(* Initial state.                                                          *)
(***************************************************************************)
InitOptimization ==
    /\ script = "optimization"
    /\ raw_demand \in SeqsOfLengths(OptDemandVals, OptLengths)
    /\ raw_wind \in SeqsOfLengths(OptWindVals, OptLengths)
    /\ mix = <<0, 0, 0>>
    /\ total_production = <<>>

InitAnalysis ==
    /\ script = "analysis"
    /\ raw_demand \in SeqsUpTo(AnaDemandVals, HOURS_PER_YEAR + 1)
    /\ raw_wind = <<>>
    /\ mix \in Installed
    /\ total_production \in [1..HOURS_PER_YEAR -> AnaProductionVals]

Init ==
    /\ InitOptimization \/ InitAnalysis
    /\ pc = "load"
    /\ hourly_demand = <<>>
    /\ wind_power = <<>>
    /\ caller = "none"
    /\ storage_kwh = 0
    /\ storage = 0
    /\ h = 0
    /\ gas_consumption = 0
    /\ gas_hourly = <<>>
    /\ storage_values = <<>>
    /\ ret = [gas |-> 0, storage_values |-> <<>>, total_production |-> <<>>]
    /\ func_vals = <<>>

(***************************************************************************)
(* optimization.py                                                         *)
(***************************************************************************)
\* lines 19-35: the series are normalised; np.pad raises on an empty series
OptNormalize ==
    /\ script = "optimization" /\ pc = "load"
    /\ IF Len(raw_demand) = 0 \/ Len(raw_wind) = 0
       THEN /\ pc' = "raised"
            /\ UNCHANGED <<hourly_demand, wind_power>>
       ELSE /\ pc' = "search"
            /\ hourly_demand' = ensure_8760(raw_demand)
            /\ wind_power' = ensure_8760(raw_wind)
    /\ UNCHANGED <<script, raw_demand, raw_wind, mix, caller, total_production,
                   storage_kwh, storage, h, gas_consumption, gas_hourly,
                   storage_values, ret, func_vals>>

\* calc_all, lines 73-80 and 97-98: entry of a run for mix m
CalcAllEnter(m, who) ==
    /\ mix' = m
    /\ caller' = who
    /\ storage_kwh' = calc_all_storage_kwh(m)
    /\ IF Feasible(calc_all_storage_kwh(m))
       THEN /\ storage' = InitialStorage(calc_all_storage_kwh(m))
            /\ total_production' = calc_energy_production(m, wind_power)
            /\ gas_consumption' = 0
            /\ gas_hourly' = <<>>
            /\ storage_values' = <<>>
            /\ h' = 0
            /\ pc' = "loop"
            /\ UNCHANGED ret
       ELSE /\ ret' = [gas |-> Sentinel, storage_values |-> <<>>,
                       total_production |-> <<>>]
            /\ pc' = "return"
            /\ UNCHANGED <<storage, total_production, gas_consumption,
                           gas_hourly, storage_values, h>>
    /\ UNCHANGED <<script, raw_demand, raw_wind, hourly_demand, wind_power,
                   func_vals>>

\* gp_minimize asks for the objective at a point inside the bounds
\* (line 113 -> optimization_function, lines 101-103)
Evaluate ==
    /\ script = "optimization" /\ pc = "search"
    /\ Len(func_vals) < n_calls
    /\ \E m \in Candidates : CalcAllEnter(m, "search")

\* calc_all, lines 82-94: one iteration of the hourly loop
CalcAllHour ==
    /\ script = "optimization" /\ pc = "loop"
    /\ h < HOURS_PER_YEAR
    /\ LET surplus == total_production[h + 1] - hourly_demand[h + 1]
       IN  /\ storage' = NextStorage(storage, surplus, storage_kwh)
           /\ gas_consumption' = gas_consumption + CalcAllGas(storage, surplus)
           /\ gas_hourly' = Append(gas_hourly, CalcAllGas(storage, surplus))
           /\ storage_values' =
                Append(storage_values, NextStorage(storage, surplus, storage_kwh))
    /\ h' = h + 1
    /\ UNCHANGED <<script, pc, raw_demand, raw_wind, hourly_demand, wind_power,
                   mix, caller, total_production, storage_kwh, ret, func_vals>>

\* calc_all, line 96
CalcAllReturn ==
    /\ script = "optimization" /\ pc = "loop"
    /\ h = HOURS_PER_YEAR
    /\ ret' = [gas |-> gas_consumption, storage_values |-> storage_values,
               total_production |-> total_production]
    /\ pc' = "return"
    /\ UNCHANGED <<script, raw_demand, raw_wind, hourly_demand, wind_power, mix,
                   caller, total_production, storage_kwh, storage, h,
                   gas_consumption, gas_hourly, storage_values, func_vals>>

\* optimization_function returns calc_all(...)[0]; gp_minimize records it
Tell ==
    /\ script = "optimization" /\ pc = "return" /\ caller = "search"
    /\ func_vals' = Append(func_vals, [x |-> mix, fun |-> ret.gas])
    /\ pc' = "search"
    /\ UNCHANGED <<script, raw_demand, raw_wind, hourly_demand, wind_power, mix,
                   caller, total_production, storage_kwh, storage, h,
                   gas_consumption, gas_hourly, storage_values, ret>>

\* result.x: the first point with the smallest objective (np.argmin)
ArgMin(fv) ==
    CHOOSE i \in 1..Len(fv) :
        /\ \A j \in 1..Len(fv) : fv[i].fun <= fv[j].fun
        /\ \A j \in 1..(i - 1) : fv[j].fun > fv[i].fun

\* lines 116-117: the best mix is simulated once more
ReRun ==
    /\ script = "optimization" /\ pc = "search"
    /\ Len(func_vals) = n_calls
    /\ CalcAllEnter(func_vals[ArgMin(func_vals)].x, "final")

\* line 117: the results of the re-run are bound
Finish ==
    /\ script = "optimization" /\ pc = "return" /\ caller = "final"
    /\ pc' = "done"
    /\ UNCHANGED <<script, raw_demand, raw_wind, hourly_demand, wind_power, mix,
                   caller, total_production, storage_kwh, storage, h,
                   gas_consumption, gas_hourly, storage_values, ret, func_vals>>

(***************************************************************************)
(* ANALYSIS BASED.py                                                       *)
(***************************************************************************)
\* main, lines 115-118
AnaNormalize ==
    /\ script = "analysis" /\ pc = "load"
    /\ IF Len(raw_demand) = 0
       THEN /\ pc' = "raised"
            /\ UNCHANGED hourly_demand
       ELSE /\ pc' = "simulate"
            /\ hourly_demand' = ensure_8760(raw_demand)
    /\ UNCHANGED <<script, raw_demand, raw_wind, wind_power, mix, caller,
                   total_production, storage_kwh, storage, h, gas_consumption,
                   gas_hourly, storage_values, ret, func_vals>>

\* simulate_energy_balance, lines 61-64
SimulateEnter ==
    /\ script = "analysis" /\ pc = "simulate"
    /\ storage_kwh' = simulate_storage_capacity(mix)
    /\ storage' = InitialStorage(simulate_storage_capacity(mix))
    /\ gas_hourly' = [i \in 1..HOURS_PER_YEAR |-> 0]
    /\ storage_values' = <<>>
    /\ h' = 0
    /\ pc' = "loop"
    /\ UNCHANGED <<script, raw_demand, raw_wind, hourly_demand, wind_power, mix,
                   caller, total_production, gas_consumption, ret, func_vals>>

\* simulate_energy_balance, lines 66-78
SimulateHour ==
    /\ script = "analysis" /\ pc = "loop"
    /\ h < HOURS_PER_YEAR
    /\ LET surplus == total_production[h + 1] - hourly_demand[h + 1]
       IN  /\ storage' = NextStorage(storage, surplus, storage_kwh)
           /\ gas_hourly' =
                [gas_hourly EXCEPT ![h + 1] = SimulateGas(storage, surplus)]
           /\ storage_values' =
                Append(storage_values, NextStorage(storage, surplus, storage_kwh))
    /\ h' = h + 1
    /\ UNCHANGED <<script, pc, raw_demand, raw_wind, hourly_demand, wind_power,
                   mix, caller, total_production, storage_kwh, gas_consumption,
                   ret, func_vals>>

\* simulate_energy_balance, line 80, and main, line 121
SimulateReturn ==
    /\ script = "analysis" /\ pc = "loop"
    /\ h = HOURS_PER_YEAR
    /\ ret' = [gas |-> gas_hourly, storage_values |-> storage_values,
               total_production |-> total_production]
    /\ pc' = "done"
    /\ UNCHANGED <<script, raw_demand, raw_wind, hourly_demand, wind_power, mix,
                   caller, total_production, storage_kwh, storage, h,
                   gas_consumption, gas_hourly, storage_values, func_vals>>

Next ==
    \/ OptNormalize
    \/ Evaluate
    \/ CalcAllHour
    \/ CalcAllReturn
    \/ Tell
    \/ ReRun
    \/ Finish
    \/ AnaNormalize
    \/ SimulateEnter
    \/ SimulateHour
    \/ SimulateReturn

Spec == Init /\ [][Next]_vars

(***************************************************************************)
(* Vocabulary of the properties.  A run is under way while pc = "loop";    *)
(* the hours recorded so far are 1..Len(storage_values).                   *)
(***************************************************************************)
InLoop == pc = "loop"
Recorded == 1..Len(storage_values)
Net(k) == total_production[k] - hourly_demand[k]
HalfCapacity == storage_kwh \div 2
LevelBefore(k) == IF k = 1 THEN HalfCapacity ELSE storage_values[k - 1]
Infeasible(m) == MixCost(m) >= total_investment
Normalized == pc \notin {"load", "raised"}

\* C1: in every run, every recorded storage level lies in [0, capacity].
C1_StorageWithinCapacity ==
    InLoop => \A k \in Recorded :
        0 <= storage_values[k] /\ storage_values[k] <= storage_kwh

\* C2: the backup of an hour is never negative, is positive only in an hour
\* that leaves the storage empty, and is zero in a surplus hour and in a
\* deficit hour the storage covers.
C2_BackupOnlyWhenEmpty ==
    InLoop => \A k \in Recorded :
        /\ gas_hourly[k] >= 0
        /\ gas_hourly[k] > 0 => storage_values[k] = 0
        /\ Net(k) > 0 => gas_hourly[k] = 0
        /\ (Net(k) <= 0 /\ LevelBefore(k) >= -Net(k)) => gas_hourly[k] = 0

C2_Witness ==
    /\ InLoop
    /\ \E k \in Recorded : gas_hourly[k] > 0
    /\ \E k \in Recorded : Net(k) <= 0 /\ Net(k) # 0 /\ gas_hourly[k] = 0

\* C3: a mix that costs at least the budget gets the sentinel with empty
\* traces and never enters the hourly loop, and the sentinel is greater than
\* the objective of every feasible mix the search evaluates.
C3_SentinelForInfeasible ==
    script = "optimization" =>
        /\ (pc \in {"loop", "return", "done"} /\ Infeasible(mix)) =>
              /\ pc # "loop"
              /\ ret = [gas |-> Sentinel, storage_values |-> <<>>,
                        total_production |-> <<>>]
        /\ (pc \in {"return", "done"} /\ ~Infeasible(mix)) => ret.gas < Sentinel
        /\ \A i \in 1..Len(func_vals) :
              IF Infeasible(func_vals[i].x)
              THEN func_vals[i].fun = Sentinel
              ELSE func_vals[i].fun < Sentinel

C3_Witness ==
    /\ script = "optimization"
    /\ \E i \in 1..Len(func_vals) :
          MixCost(func_vals[i].x) = total_investment /\ func_vals[i].fun = Sentinel
    /\ \E i \in 1..Len(func_vals) :
          ~Infeasible(func_vals[i].x) /\ func_vals[i].fun > 0

\* C4: the capacity of a run is the residual budget divided by the storage
\* cost per kWh, exactly.
C4_CapacityIsResidualOverStorageCost ==
    InLoop => storage_kwh * cost_storage_kwh = kWh(Residual(mix))

\* C5: every recorded hour follows the reference rule from half the capacity,
\* in hour order, and an hour with net = 0 leaves the storage level unchanged.
C5_ReferenceTransition ==
    InLoop =>
        /\ Len(storage_values) = h
        /\ storage = (IF h = 0 THEN HalfCapacity ELSE storage_values[h])
        /\ \A k \in Recorded :
              LET s == LevelBefore(k)
                  net == Net(k)
                  d == -net
              IN  /\ IF net > 0
                     THEN /\ storage_values[k] = Min(s + (17 * net) \div 20, storage_kwh)
                          /\ gas_hourly[k] = 0
                     ELSE IF s >= d
                          THEN storage_values[k] = s - d /\ gas_hourly[k] = 0
                          ELSE gas_hourly[k] = d - s /\ storage_values[k] = 0
                  /\ net = 0 => storage_values[k] = s

\* C6: in an hour with net <= 0, production plus backup plus the drawdown of
\* the storage covers the demand.
C6_DemandMetInDeficit ==
    InLoop => \A k \in Recorded :
        Net(k) <= 0 =>
            total_production[k] + gas_hourly[k]
              + (LevelBefore(k) - storage_values[k]) >= hourly_demand[k]

C6_Witness ==
    /\ InLoop
    /\ \E k \in Recorded :
          Net(k) < 0 /\ gas_hourly[k] > 0 /\ LevelBefore(k) > storage_values[k]
    /\ \E k \in Recorded : Net(k) < 0 /\ gas_hourly[k] = 0

\* what C7 says of one input series and its normalised form
NormalizedAs(raw, out) ==
    /\ Len(out) = HOURS_PER_YEAR
    /\ \A i \in 1..Min(Len(raw), HOURS_PER_YEAR) : out[i] = raw[i]
    /\ \A i \in (Len(raw) + 1)..HOURS_PER_YEAR : out[i] = raw[Len(raw)]
    /\ Len(raw) = HOURS_PER_YEAR => out = raw

\* C7: a series of at least one sample is normalised to exactly
\* HOURS_PER_YEAR samples: its first samples in order, then its last sample
\* repeated; a longer one is cut, one of the right length is unchanged.
C7_NormalizedLength ==
    Normalized =>
        /\ NormalizedAs(raw_demand, hourly_demand)
        /\ script = "optimization" => NormalizedAs(raw_wind, wind_power)

C7_Witness ==
    /\ Normalized
    /\ script = "analysis"
    /\ Len(raw_demand) = HOURS_PER_YEAR - 1
    /\ raw_demand[1] # raw_demand[Len(raw_demand)]
    /\ Len(hourly_demand) = HOURS_PER_YEAR

\* C8: normalising a normalised series changes nothing.
C8_NormalizeIdempotent ==
    Normalized =>
        /\ ensure_8760(hourly_demand) = hourly_demand
        /\ ensure_8760(ensure_8760(raw_demand)) = ensure_8760(raw_demand)
        /\ script = "optimization" =>
              /\ ensure_8760(wind_power) = wind_power
              /\ ensure_8760(ensure_8760(raw_wind)) = ensure_8760(raw_wind)

C8_Witness ==
    /\ Normalized
    /\ script = "analysis"
    /\ Len(raw_demand) > HOURS_PER_YEAR
    /\ raw_demand[HOURS_PER_YEAR + 1] # raw_demand[HOURS_PER_YEAR]
    /\ hourly_demand # raw_demand

\* the result of a run of mix m computed from m and the input series alone
RECURSIVE RefLevel(_, _)
RefCapacity(m) == calc_all_storage_kwh(m)
RefNet(m, k) == calc_energy_production(m, wind_power)[k] - hourly_demand[k]
RefLevel(m, k) ==
    IF k = 0 THEN RefCapacity(m) \div 2
    ELSE LET s == RefLevel(m, k - 1)
             net == RefNet(m, k)
         IN  IF net > 0 THEN Min(s + (17 * net) \div 20, RefCapacity(m))
             ELSE IF s >= -net THEN s + net ELSE 0
RefBackup(m, k) ==
    LET s == RefLevel(m, k - 1)
        net == RefNet(m, k)
    IN  IF net > 0 \/ s >= -net THEN 0 ELSE -net - s
RECURSIVE RefTotal(_, _)
RefTotal(m, k) == IF k = 0 THEN 0 ELSE RefTotal(m, k - 1) + RefBackup(m, k)
RefResult(m) ==
    IF RefCapacity(m) > 0
    THEN [gas |-> RefTotal(m, HOURS_PER_YEAR),
          storage_values |-> [k \in 1..HOURS_PER_YEAR |-> RefLevel(m, k)],
          total_production |-> calc_energy_production(m, wind_power)]
    ELSE [gas |-> Sentinel, storage_values |-> <<>>, total_production |-> <<>>]

\* C9: every run starts from half its own capacity with no backup counted,
\* and what a run returns is a function of its mix and the input series:
\* the same mix always yields the same objective, also in the final re-run.
C9_RunsAreStateless ==
    script = "optimization" =>
        /\ (InLoop /\ h = 0) =>
              /\ storage = HalfCapacity
              /\ gas_consumption = 0
              /\ storage_values = <<>>
        /\ pc \in {"return", "done"} => ret = RefResult(mix)
        /\ \A i \in 1..Len(func_vals) :
              func_vals[i].fun = RefResult(func_vals[i].x).gas
        /\ \A i, j \in 1..Len(func_vals) :
              func_vals[i].x = func_vals[j].x => func_vals[i].fun = func_vals[j].fun
        /\ pc = "done" =>
              \A i \in 1..Len(func_vals) :
                  func_vals[i].x = mix => func_vals[i].fun = ret.gas

C9_Witness ==
    /\ script = "optimization" /\ pc = "done"
    /\ ret.gas > 0 /\ ret.gas < Sentinel
    /\ \E i, j \in 1..Len(func_vals) :
          /\ i < j
          /\ func_vals[i].x # func_vals[j].x
          /\ func_vals[j].x = mix
          /\ func_vals[i].fun > func_vals[j].fun
          /\ func_vals[i].fun < Sentinel

\* C10: the standalone simulation of a configuration that costs at least
\* the budget never runs the hourly loop and ends with a failure result.
C10_StandaloneRejectsInfeasible ==
    (script = "analysis" /\ Infeasible(mix)) =>
        /\ pc # "loop"
        /\ pc = "done" => ret.storage_values = <<>>

\* every hour of the run is a deficit hour
AllDeficit ==
    \A i \in 1..HOURS_PER_YEAR : total_production[i] <= hourly_demand[i]

=============================================================================
